---------------------------- MODULE Spec2Model ----------------------------
(***************************************************************************)
(* A state-machine model of JESX (src/src/jesx.js): the singleton          *)
(* configuration, the Loaded-styles set, the Template Registry, the host   *)
(* document, and the operations cfg, createElement, renderApp and rcmp.    *)
(*                                                                         *)
(* The document is a heap of element nodes.  Node 0 is document.body; the  *)
(* document's head is the sequence of style-carrying elements appended to  *)
(* it.  A text node is kept inline in its parent's child list (it has no   *)
(* identifier and is never captured by a descriptor in this model).        *)
(***************************************************************************)
EXTENDS Integers, Sequences, FiniteSets, TLC

\* ------------------------------------------------------------------ bounds
\* Number of element nodes the document heap can hold besides document.body.
MaxNodes == 9
\* Number of element nodes built in a run of builds and partial re-renders.
MaxBuilt == 4
\* Largest value the ambient variable `counter` takes.
MaxCounter == 1

\* ------------------------------------------------------------- JS values
\* null / undefined, and the test `if (x)` on the strings the model uses.
Null == "null"
Undefined == "undefined"
Truthy(x) == x \notin {Null, Undefined, ""}

\* A function with no keys: {} (and, for a property bag, null: createElement
\* treats both alike, `props && props.id` and `if (props)`).
Empty == [k \in {} |-> ""]

Has(f, k) == k \in DOMAIN f

\* Property values are tagged so that a string and a mapping never meet in a
\* comparison: [str |-> s] is a string, [map |-> m] a mapping (typeof 'object').
Str(s) == [str |-> s]
IsStr(v) == Has(v, "str")
IsMap(v) == Has(v, "map")
\* [nul |-> TRUE] is null; typeof null is 'object' too.
IsNull(v) == Has(v, "nul")
IsObject(v) == IsMap(v) \/ IsNull(v)

\* String(n) for the numbers the model uses.
NumStr(n) == CASE n = 0 -> "0" [] n = 1 -> "1" [] n = 2 -> "2" [] n = 3 -> "3"
               [] OTHER -> "n"

\* Strings that are compared with routes are sequences of pieces: "#about" is
\* <<"#", "about">>, "/about" is <<"/", "about">>, "/" is <<"/">>, '*' is <<"*">>.
Slash == <<"/">>
Star == <<"*">>

\* ------------------------------------------------------------ text children
\* A string child is a sequence of segments: [lit |-> s] is literal text and
\* [expr |-> e] is one occurrence of J{e}.
Lit(s) == [lit |-> s]
Expr(e) == [expr |-> e]

\* Function('return ' + expr)() in the global scope; Threw marks an exception.
\* NoStringForm marks a value String.prototype.replace cannot convert to a
\* string (a Symbol, an object without a prototype): the conversion throws a
\* TypeError after the callback, and its try/catch, has returned.
Threw == "<threw>"
NoStringForm == "<no string form>"
EvalExpr(e, cnt) ==
    CASE e = "counter" -> NumStr(cnt)
      [] e = "1+1" -> "2"
      [] e = "Symbol()" -> NoStringForm
      [] OTHER -> Threw            \* a ReferenceError: undefinedVar

\* evalTemplate: every J{expr} is replaced by the value, or by 'undefined'
\* when the evaluation throws; literal text is kept.
EvalTemplate(segs, cnt) ==
    [i \in 1..Len(segs) |->
        IF Has(segs[i], "lit") THEN segs[i].lit
        ELSE IF EvalExpr(segs[i].expr, cnt) = Threw THEN "undefined"
             ELSE EvalExpr(segs[i].expr, cnt)]

\* str.replace(...) throws: the value of one of the expressions has no string
\* form.
TemplateThrows(segs, cnt) ==
    \E i \in 1..Len(segs) :
        Has(segs[i], "expr") /\ EvalExpr(segs[i].expr, cnt) = NoStringForm

\* ------------------------------------------------------------- the document
Body == 0
NodeIds == 0..MaxNodes

\* An element: its tag, attributes, classList additions, style properties and
\* children.  A child is [node |-> n] or a text node [text |-> t, src |-> segs]
\* (src: the string child it was made from).
Elem(tag) == [tag |-> tag, attrs |-> Empty, classes |-> {}, style |-> Empty,
              kids |-> <<>>]
Free == Elem("")
IsNodeKid(k) == Has(k, "node")
NodeKid(n) == [node |-> n]
TextKid(t, segs) == [text |-> t, src |-> segs]
\* An exception left createElement while it was working on an element: the
\* mark ends the child list of that element, which no one holds a reference to.
Thrown == [threw |-> TRUE]
Stopped(heap, el) ==
    heap[el].kids # <<>> /\ heap[el].kids[Len(heap[el].kids)] = Thrown

\* The element children of node n, in order.
ElemKids(heap, n) ==
    LET ks == SelectSeq(heap[n].kids, IsNodeKid)
    IN [i \in 1..Len(ks) |-> ks[i].node]

\* The parent of n (0 is document.body), or -1 when n is unattached.
ParentOf(heap, n) ==
    LET ps == {p \in NodeIds : \E i \in 1..Len(heap[p].kids) :
                                  heap[p].kids[i] = NodeKid(n)}
    IN IF ps = {} THEN -1 ELSE CHOOSE p \in ps : TRUE

RECURSIVE PreOrder(_, _)
RECURSIVE PreOrderSeq(_, _)
\* n and its element descendants in document order.
PreOrder(heap, n) == <<n>> \o PreOrderSeq(heap, ElemKids(heap, n))
PreOrderSeq(heap, ns) ==
    IF ns = <<>> THEN <<>>
    ELSE PreOrder(heap, Head(ns)) \o PreOrderSeq(heap, Tail(ns))

Range(s) == {s[i] : i \in 1..Len(s)}
Subtree(heap, n) == Range(PreOrder(heap, n))
\* The elements of the document (those under document.body).
InDocument(heap) == Subtree(heap, Body) \ {Body}

\* document.getElementById: the first element in document order with that id.
GetElementById(heap, id) ==
    LET order == PreOrder(heap, Body)
        hits == {i \in 1..Len(order) :
                    /\ order[i] # Body
                    /\ Has(heap[order[i]].attrs, "id")
                    /\ heap[order[i]].attrs["id"] = id}
    IN IF hits = {} THEN -1
       ELSE order[CHOOSE i \in hits : \A j \in hits : i <= j]

\* Remove n from whichever child list holds it.
Detach(heap, n) ==
    [p \in NodeIds |->
        [heap[p] EXCEPT !.kids = SelectSeq(@, LAMBDA k : k # NodeKid(n))]]

\* parent.appendChild(n): a node that is already attached is moved.
AppendNode(heap, parent, n) ==
    LET h == Detach(heap, n)
    IN IF parent \in NodeIds THEN [h EXCEPT ![parent].kids = Append(@, NodeKid(n))]
       ELSE h

\* parent.replaceChild(new, old): new takes old's position; old is detached.
ReplaceChild(heap, parent, new, old) ==
    LET h == Detach(heap, new)
    IN [h EXCEPT ![parent].kids =
            [i \in 1..Len(@) |-> IF @[i] = NodeKid(old) THEN NodeKid(new) ELSE @[i]]]

\* ------------------------------------------------------ Template Registry
\* `const __jesx_templates_raw = {}` is a plain object: besides its own
\* entries, a lookup finds what every object inherits from Object.prototype.
ProtoKeys == {"constructor"}
Inherited == [inherited |-> "Object"]
Lookup(templates, id) ==
    IF Has(templates, id) THEN templates[id]
    ELSE IF id \in ProtoKeys THEN Inherited
    ELSE [undefined |-> TRUE]
IsUndefined(v) == Has(v, "undefined")

Descriptor(tag, props, children) ==
    [tag |-> tag, props |-> props, children |-> children]

\* props && props.id
NodeIdOf(props) ==
    IF Has(props, "id") /\ IsStr(props["id"]) THEN props["id"].str ELSE ""

\* `if (nodeId && !__jesx_templates_raw[nodeId])`
ShouldRegister(templates, props) ==
    Truthy(NodeIdOf(props)) /\ IsUndefined(Lookup(templates, NodeIdOf(props)))

Put(f, k, v) == [x \in DOMAIN f \cup {k} |-> IF x = k THEN v ELSE f[x]]


\* ---------------------------------------------------------- Element Builder
\* The builder works on m = [heap, next, templates, head, loaded, first]: the
\* document heap, the next unused node, the Template Registry's own entries,
\* the head's style-carrying elements, the Loaded-styles set, and a history
\* record `first` (not program state): for each identifier, the descriptor of
\* the first build that used it.
Fits(m) == m.next <= MaxNodes + 1

\* Object.entries(props).forEach(...): class and style mappings, else setAttribute.
AttrsOf(props) ==
    [k \in {x \in DOMAIN props : ~((x = "class" \/ x = "style") /\ IsObject(props[x]))} |->
        IF IsStr(props[k]) THEN props[k].str
        ELSE IF IsNull(props[k]) THEN "null" ELSE "[object Object]"]
\* Object.entries(null) throws a TypeError.
PropsThrow(props) ==
    \E k \in {"class", "style"} : Has(props, k) /\ IsNull(props[k])
ClassesOf(props) ==
    IF Has(props, "class") /\ IsMap(props["class"])
    THEN {c \in DOMAIN props["class"].map : props["class"].map[c]}
    ELSE {}
StyleOf(props) ==
    IF Has(props, "style") /\ IsMap(props["style"]) THEN props["style"].map ELSE Empty

\* document.createElement(tag) with the properties applied (lines 168-187).
ElemOf(d) ==
    [Elem(d.tag) EXCEPT !.attrs = AttrsOf(d.props), !.classes = ClassesOf(d.props),
                        !.style = StyleOf(d.props)]

RECURSIVE AppendChild(_, _, _, _)
RECURSIVE AppendChildren(_, _, _, _)
RECURSIVE AppendChildren_LastFirst(_, _, _, _)
AppendChildren_LastFirst(heap, el, children, cnt) ==
    IF children = <<>> THEN heap
    ELSE AppendChild(AppendChildren_LastFirst(heap, el, Tail(children), cnt), el,
                     Head(children), cnt)
\* appendChild(child) of createElement: flattens depth-first into element el.
AppendChild(heap, el, child, cnt) ==
    CASE Stopped(heap, el) -> heap
      [] Has(child, "seq") -> AppendChildren(heap, el, child.seq, cnt)
      [] Has(child, "str") ->
            [heap EXCEPT ![el].kids =
                Append(@, IF TemplateThrows(child.str, cnt) THEN Thrown
                          ELSE TextKid(EvalTemplate(child.str, cnt), child.str))]
      [] Has(child, "num") ->
            [heap EXCEPT ![el].kids =
                Append(@, TextKid(EvalTemplate(<<Lit(NumStr(child.num))>>, cnt),
                                  <<Lit(NumStr(child.num))>>))]
      [] Has(child, "node") -> AppendNode(heap, el, child.node)
      [] Has(child, "nul") -> heap
      [] OTHER -> [heap EXCEPT ![el].kids =
                      Append(@, TextKid(<<child.other>>, <<Lit(child.other)>>))]
AppendChildren(heap, el, children, cnt) ==
    IF children = <<>> THEN heap
    ELSE AppendChildren(AppendChild(heap, el, Head(children), cnt), el,
                        Tail(children), cnt)

\* History only: the first descriptor built under an identifier.
Remember(m, d) ==
    IF Truthy(NodeIdOf(d.props)) /\ ~Has(m.first, NodeIdOf(d.props))
    THEN [m EXCEPT !.first = Put(@, NodeIdOf(d.props), d)]
    ELSE m

Register_Overwrite(m, d) ==
    IF Truthy(NodeIdOf(d.props))
    THEN [m EXCEPT !.templates = Put(@, NodeIdOf(d.props), d)]
    ELSE m
\* Lines 162-166: the descriptor is stored under its id.
Register(m, d) ==
    IF ShouldRegister(m.templates, d.props)
    THEN [m EXCEPT !.templates = Put(@, NodeIdOf(d.props), d)]
    ELSE m

\* Lines 168-213: the element, its properties and its children; the result is
\* [m, out], out the new node.
WithProps(heap, el, d) ==
    IF PropsThrow(d.props) THEN [heap EXCEPT ![el] = [Elem(d.tag) EXCEPT !.kids = <<Thrown>>]]
    ELSE [heap EXCEPT ![el] = ElemOf(d)]
Result(m, el) ==
    [m |-> m,
     out |-> IF el \in NodeIds /\ Stopped(m.heap, el) THEN Thrown ELSE NodeKid(el)]
NewElement(m, d, cnt) ==
    Result(IF m.next \in NodeIds
           THEN [m EXCEPT !.heap = AppendChildren(WithProps(@, m.next, d),
                                                  m.next, d.children, cnt),
                          !.next = @ + 1]
           ELSE [m EXCEPT !.next = @ + 1],
           m.next)

\* createElement for a concrete tag name (lines 162-213).
CreateTag(m, d, cnt) == NewElement(Register(Remember(m, d), d), d, cnt)

\* --------------------------------------------------------------- components
\* The component classes of the application (plain classes with a render()
\* method).  Their render() bodies build nodes through j() / createElement:
\*   Home   : j("div", {id: "x"}, "n=J{counter}")
\*   About  : [ j("p", {id: "x", title: "about"}, "about"), j("hr", null) ]
\*   Hdr    : j("header", null, "hdr")
\*   Ftr    : j("footer", null, "ftr")
\*   Nav    : [ j("nav", null, "a"), j("nav", null, "b") ]
Components == {"Home", "About", "Hdr", "Ftr", "Nav"}
\* A page-map value that is not a function (an object, a typo).
NotAComponent == "notAFunction"

HomeDesc == Descriptor("div", [id |-> Str("x")], <<[str |-> <<Lit("n="), Expr("counter")>>]>>)
AboutDesc == Descriptor("p", [id |-> Str("x"), title |-> Str("about")],
                        <<[str |-> <<Lit("about")>>]>>)

\* What render() of component c builds, in order, and whether it returns the
\* nodes as an array.
RenderPlan(c) ==
    CASE c = "Home" -> [array |-> FALSE, descs |-> <<HomeDesc>>]
      [] c = "About" ->
            [array |-> TRUE, descs |-> <<AboutDesc, Descriptor("hr", Empty, <<>>)>>]
      [] c = "Hdr" ->
            [array |-> FALSE,
             descs |-> <<Descriptor("header", Empty, <<[str |-> <<Lit("hdr")>>]>>)>>]
      [] c = "Ftr" ->
            [array |-> FALSE,
             descs |-> <<Descriptor("footer", Empty, <<[str |-> <<Lit("ftr")>>]>>)>>]
      [] OTHER ->
            [array |-> TRUE,
             descs |-> <<Descriptor("nav", Empty, <<[str |-> <<Lit("a")>>]>>),
                         Descriptor("nav", Empty, <<[str |-> <<Lit("b")>>]>>)>>]

\* The tag of the node(s) component c renders.
RootTagOf(c) == RenderPlan(c).descs[1].tag

RECURSIVE BuildAll(_, _, _)
\* The j(...) calls of a render() body, in order: r is [m, out], out the nodes
\* built so far.
BuildAll(r, descs, cnt) ==
    IF descs = <<>> THEN r
    ELSE BuildAll([m |-> CreateTag(r.m, Head(descs), cnt).m,
                   out |-> Append(r.out, CreateTag(r.m, Head(descs), cnt).out)],
                  Tail(descs), cnt)

\* The value render() returns: the array, or the single node.
Returned(r, plan) ==
    [m |-> r.m, out |-> IF plan.array THEN [seq |-> r.out] ELSE r.out[Len(r.out)]]

\* instance.render() of component c: [m, out], out a node or [seq |-> nodes].
Render(m, c, cnt) ==
    Returned(BuildAll([m |-> m, out |-> <<>>], RenderPlan(c).descs, cnt), RenderPlan(c))

\* typeof tag === 'function'
IsFunction(v) == v \in Components

\* createElement(tag, props, ...children): a component class is instantiated
\* and rendered; anything else is a concrete tag.
CreateElement_Registers(m, d, cnt) ==
    IF IsFunction(d.tag) THEN Render(Register(m, d), d.tag, cnt) ELSE CreateTag(m, d, cnt)
CreateElement(m, d, cnt) ==
    IF IsFunction(d.tag) THEN Render(m, d.tag, cnt) ELSE CreateTag(m, d, cnt)

\* renderComponent(component)
RenderComponent(m, c, cnt) == Render(m, c, cnt)

\* ------------------------------------------------------------------- styles
DefaultStyles == "defaultstyles.css"
Link(url) == [link |-> url]
InlineStyle(css) == [style |-> css]

\* addStyle(url): guarded by the Loaded-styles set.
AddStyle_Unguarded(m, url) ==
    [m EXCEPT !.head = Append(@, Link(url)), !.loaded = @ \cup {url}]
AddStyle(m, url) ==
    IF url \notin m.loaded
    THEN [m EXCEPT !.head = Append(@, Link(url)), !.loaded = @ \cup {url}]
    ELSE m

\* addDefaultStyles()
AddDefaultStyles(m) ==
    IF DefaultStyles \notin m.loaded
    THEN [m EXCEPT !.head = Append(@, Link(DefaultStyles)),
                   !.loaded = @ \cup {DefaultStyles}]
    ELSE m

\* addInlineStyle(css): guarded by a search of the head's style elements.
AddInlineStyle(m, css) ==
    IF ~\E i \in 1..Len(m.head) : m.head[i] = InlineStyle(css)
    THEN [m EXCEPT !.head = Append(@, InlineStyle(css))]
    ELSE m

RECURSIVE AddStyles(_, _)
\* addStyles(urls): urls.forEach(url => this.addStyle(url))
AddStyles(m, urls) ==
    IF urls = <<>> THEN m ELSE AddStyles(AddStyle(m, Head(urls)), Tail(urls))

\* ------------------------------------------------------------ configuration
EmptyPages == [r \in {} |-> ""]
DefaultConfig ==
    [title |-> "Site",
     ui |-> [theme |-> "light"],
     style |-> Null,
     styles |-> <<>>,
     global |-> [headers |-> <<>>, footers |-> <<>>, pages |-> <<Star>>],
     pages |-> EmptyPages]

\* Object.assign(this.config, config): own keys of the overlay replace the
\* target's, whole values at a time.
Assign_Deep(target, overlay) ==
    [k \in DOMAIN target \cup DOMAIN overlay |->
        IF ~Has(overlay, k) THEN target[k]
        ELSE IF k = "global" /\ Has(target, k)
        THEN [f \in DOMAIN target[k] \cup DOMAIN overlay[k] |->
                 IF Has(overlay[k], f) THEN overlay[k][f] ELSE target[k][f]]
        ELSE overlay[k]]
Assign(target, overlay) ==
    [k \in DOMAIN target \cup DOMAIN overlay |->
        IF Has(overlay, k) THEN overlay[k] ELSE target[k]]

\* Lines 124-142 of cfg, on the merged configuration c.
ApplyTheme(m, c) ==
    IF Has(c.ui, "theme") /\ Truthy(c.ui.theme)
    THEN [m EXCEPT !.heap[Body].attrs = Put(@, "data-theme", c.ui.theme)]
    ELSE m
ApplyStyle(m, c) == IF Truthy(c.style) THEN AddStyle(m, c.style) ELSE m
ApplyStyles(m, c) == AddStyles(m, c.styles)
ApplyInlineStyle(m, c) ==
    IF Has(c, "inlineStyle") /\ Truthy(c.inlineStyle)
    THEN AddInlineStyle(m, c.inlineStyle)
    ELSE m

\* cfg(config): the merge, then theme, style, styles and inlineStyle.
CfgWith(m, c) ==
    [m |-> ApplyInlineStyle(ApplyStyles(ApplyStyle(ApplyTheme(m, c), c), c), c),
     config |-> c]
Cfg(m, config, overlay) == CfgWith(m, Assign(config, overlay))

\* ----------------------------------------------------------- Route Resolver
\* String.prototype.slice(1): the string without its first character.
Slice1(str) == IF str = <<>> THEN <<>> ELSE Tail(str)

\* getCurrentRoute(): hash ? "/" + hash : "/"
GetCurrentRoute_Bare(locationHash) ==
    IF Slice1(locationHash) # <<>> THEN Slice1(locationHash) ELSE Slash
GetCurrentRoute(locationHash) ==
    IF Slice1(locationHash) # <<>> THEN Slash \o Slice1(locationHash) ELSE Slash

ShouldHaveGlobal_Always(config, page) == [ok |-> TRUE, val |-> TRUE]
ShouldHaveGlobal_StarOnly(config, page) ==
    IF ~Has(config.global, "pages") THEN [ok |-> FALSE, val |-> FALSE]
    ELSE [ok |-> TRUE, val |-> Star \in Range(config.global.pages)]
\* shouldHaveGlobal(page); reading .includes of an undefined page-filter list
\* throws a TypeError, reported as [ok |-> FALSE].
ShouldHaveGlobal(config, page) ==
    IF ~Has(config.global, "pages") THEN [ok |-> FALSE, val |-> FALSE]
    ELSE [ok |-> TRUE,
          val |-> Star \in Range(config.global.pages)
                  \/ page \in Range(config.global.pages)]

\* getGlobalHeaders(page) / getGlobalFooters(page), and the forEach on the
\* result: an undefined list makes forEach throw, reported as [ok |-> FALSE].
GetGlobal(config, page, field) ==
    IF ~ShouldHaveGlobal(config, page).ok THEN [ok |-> FALSE, list |-> <<>>]
    ELSE IF ~ShouldHaveGlobal(config, page).val THEN [ok |-> TRUE, list |-> <<>>]
    ELSE IF ~Has(config.global, field) THEN [ok |-> FALSE, list |-> <<>>]
    ELSE [ok |-> TRUE, list |-> config.global[field]]
GetGlobalHeaders(config, page) == GetGlobal(config, page, "headers")
GetGlobalFooters(config, page) == GetGlobal(config, page, "footers")

\* ------------------------------------------------------------- App Renderer
\* The body component of a route (line 276).
SelectBody_NoFallback(pages, route) ==
    IF Has(pages, route) THEN pages[route] ELSE Undefined
SelectBody(pages, route) ==
    IF Has(pages, route) THEN pages[route]
    ELSE IF Has(pages, Slash) THEN pages[Slash]
    ELSE Undefined

AppId == "app"
MainClass == "main-content"

\* A pass works on x = [m, root, main, content, outcome]: the builder state,
\* the mount container, the content wrapper, the body's rendered output, and
\* "run" while the pass is running, "threw" once an exception left it.
Running(x) == x.outcome = "run"

\* Lines 282-288: the mount container, created and appended when missing.
NewRoot(r) ==
    [m |-> [r.m EXCEPT !.heap = AppendNode(@, Body, r.out.node)],
     root |-> r.out.node, main |-> -1, content |-> <<>>, outcome |-> "run"]
EnsureRoot_Always(m, cnt) ==
    NewRoot(CreateElement(m, Descriptor("div", [id |-> Str(AppId)], <<>>), cnt))
EnsureRoot(m, cnt) ==
    IF GetElementById(m.heap, AppId) # -1
    THEN [m |-> m, root |-> GetElementById(m.heap, AppId), main |-> -1,
          content |-> <<>>, outcome |-> "run"]
    ELSE NewRoot(CreateElement(m, Descriptor("div", [id |-> Str(AppId)], <<>>), cnt))

\* Line 291: const content = this.renderComponent(component), kept as the
\* sequence of nodes main receives.
WithContent(x, r) ==
    [x EXCEPT !.m = r.m,
              !.content = IF Has(r.out, "seq") THEN r.out.seq ELSE <<r.out>>]
RenderBody(x, component, cnt) == WithContent(x, RenderComponent(x.m, component, cnt))

\* Lines 293-306: baseline, config.style and config.styles.
EnsureDefault(m) == IF DefaultStyles \notin m.loaded THEN AddDefaultStyles(m) ELSE m
EnsureStyle(m, config) ==
    IF Truthy(config.style) /\ config.style \notin m.loaded
    THEN AddStyle(m, config.style) ELSE m
EnsureStyles(x, config) ==
    [x EXCEPT !.m = AddStyles(EnsureStyle(EnsureDefault(@), config), config.styles)]

\* Lines 308-312: root.innerHTML = '' and the content wrapper.
WithMain(x, r) == [x EXCEPT !.m = r.m, !.main = r.out.node]
ClearAndWrap(x, cnt) ==
    WithMain(x, CreateElement([x.m EXCEPT !.heap[x.root].kids = <<>>],
                              Descriptor("div", [class |-> Str(MainClass)], <<>>), cnt))

RECURSIVE AppendRendered(_, _, _)
\* comps.forEach(C => root.appendChild(this.renderComponent(C))): appendChild
\* of an array throws a TypeError.
AppendOne(x, r) ==
    IF Has(r.out, "seq") THEN [x EXCEPT !.m = r.m, !.outcome = "threw"]
    ELSE [x EXCEPT !.m = [r.m EXCEPT !.heap = AppendNode(@, x.root, r.out.node)]]
AppendRendered(x, comps, cnt) ==
    IF comps = <<>> \/ ~Running(x) THEN x
    ELSE AppendRendered(AppendOne(x, RenderComponent(x.m, Head(comps), cnt)),
                        Tail(comps), cnt)

\* Lines 314-319 and 329-334: the global headers, the global footers.
AppendGlobal(x, g, cnt) ==
    IF ~Running(x) THEN x
    ELSE IF ~g.ok THEN [x EXCEPT !.outcome = "threw"]
    ELSE AppendRendered(x, g.list, cnt)

RECURSIVE AppendAll(_, _, _)
\* content.forEach(element => main.appendChild(element))
AppendAll(heap, parent, nodes) ==
    IF nodes = <<>> THEN heap
    ELSE AppendAll(AppendNode(heap, parent, Head(nodes).node), parent, Tail(nodes))

\* Lines 321-327: the body's output into the wrapper, the wrapper into the root.
AppendMain(x) ==
    IF ~Running(x) THEN x
    ELSE [x EXCEPT !.m.heap = AppendNode(AppendAll(@, x.main, x.content), x.root, x.main)]

Finish(x) == [m |-> x.m, outcome |-> IF Running(x) THEN "done" ELSE x.outcome]

\* Lines 282-334 for a valid body component.
Pass(m, config, route, component, cnt) ==
    Finish(AppendGlobal(
        AppendMain(AppendGlobal(
            ClearAndWrap(EnsureStyles(RenderBody(EnsureRoot(m, cnt), component, cnt),
                                      config), cnt),
            GetGlobalHeaders(config, route), cnt)),
        GetGlobalFooters(config, route), cnt))

\* renderApp()
RenderRoute_RootFirst(m, config, route, cnt) ==
    IF ~IsFunction(SelectBody(config.pages, route))
    THEN [m |-> EnsureRoot(m, cnt).m, outcome |-> "aborted"]
    ELSE Pass(m, config, route, SelectBody(config.pages, route), cnt)
RenderRoute(m, config, route, cnt) ==
    IF ~IsFunction(SelectBody(config.pages, route))
    THEN [m |-> m, outcome |-> "aborted"]
    ELSE Pass(m, config, route, SelectBody(config.pages, route), cnt)
RenderApp(m, config, locationHash, cnt) ==
    RenderRoute(m, config, GetCurrentRoute(locationHash), cnt)

\* --------------------------------------------------------- Partial Re-render
\* Lines 349-350: the rebuild through j(...) and the swap.
Swap(r, parent, node) ==
    IF r.out = Thrown THEN [m |-> r.m, outcome |-> "threw", new |-> -1]
    ELSE [m |-> [r.m EXCEPT !.heap = ReplaceChild(@, parent, r.out.node, node)],
          outcome |-> "replaced", new |-> r.out.node]
Rebuilt_KeepKids(m, tpl, node, cnt) ==
    LET r == CreateElement(m, tpl, cnt)
    IN [r EXCEPT !.m.heap[r.out.node].kids = r.m.heap[node].kids]
Rebuilt(m, tpl, node, cnt) == CreateElement(m, tpl, cnt)

\* Lines 347-350.  A lookup that finds an inherited value passes
\* `if (!tpl) return`, and the spread of its undefined .children throws.
RcmpWith(m, tpl, parent, node, cnt) ==
    IF IsUndefined(tpl) THEN [m |-> m, outcome |-> "noTemplate", new |-> -1]
    ELSE IF Has(tpl, "inherited") THEN [m |-> m, outcome |-> "threw", new |-> -1]
    ELSE Swap(Rebuilt(m, tpl, node, cnt), parent, node)

\* Lines 343-346.
RcmpAt(m, id, node, cnt) ==
    IF node = -1 THEN [m |-> m, outcome |-> "noNode", new |-> -1]
    ELSE IF ParentOf(m.heap, node) = -1
    THEN [m |-> m, outcome |-> "noParent", new |-> -1]
    ELSE RcmpWith(m, Lookup(m.templates, id), ParentOf(m.heap, node), node, cnt)

\* rcmp(id)
Rcmp(m, id, cnt) == RcmpAt(m, id, GetElementById(m.heap, id), cnt)

\* ==================================================================== state
VARIABLES
    config,     \* instance.config
    loaded,     \* instance.loadedStyles
    templates,  \* __jesx_templates_raw (own entries)
    heap,       \* the element nodes; heap[Body] is document.body
    next,       \* the next unused node
    head,       \* document.head's style-carrying elements, in order
    hash,       \* window.location.hash
    counter,    \* the ambient variable `counter` that J{counter} reads
    ready,      \* DOMContentLoaded has fired (the hashchange listener is set)
    events,     \* hashchange events queued by the host and not yet delivered
    first,      \* history: the first descriptor built under each identifier
    last        \* history: the operation that ran last and its outcome

vars == <<config, loaded, templates, heap, next, head, hash, counter, ready,
          events, first, last>>

\* Queued hashchange events the model lets pile up.
MaxEvents == 1

M == [heap |-> heap, next |-> next, templates |-> templates, head |-> head,
      loaded |-> loaded, first |-> first]

Install(m) ==
    /\ Fits(m)
    /\ heap' = m.heap
    /\ next' = m.next
    /\ templates' = m.templates
    /\ head' = m.head
    /\ loaded' = m.loaded
    /\ first' = m.first

Op(op, outcome) ==
    [op |-> op, outcome |-> outcome, id |-> "", ov |-> Empty, new |-> -1,
     desc |-> Empty]

\* The page's own markup: an empty body, or a body that already holds the
\* mount container <div id="app"></div>.
EmptyDocument == [n \in NodeIds |-> IF n = Body THEN Elem("body") ELSE Free]
StaticDocument ==
    [EmptyDocument EXCEPT ![Body].kids = <<NodeKid(1)>>,
                          ![1] = [Elem("div") EXCEPT !.attrs = [id |-> AppId]]]

\* The state after the module is loaded: `new JESX()`, an empty registry, and
\* the page's own document.
Init ==
    /\ config = DefaultConfig
    /\ loaded = {}
    /\ templates = Empty
    /\ \/ /\ heap = EmptyDocument
          /\ next = 1
       \/ /\ heap = StaticDocument
          /\ next = 2
    /\ head = <<>>
    /\ hash \in {<<>>, <<"#", "about">>}
    /\ counter = 0
    /\ ready = FALSE
    /\ events = 0
    /\ first = Empty
    /\ last = Op("load", "done")

\* ------------------------------------------------------------------- inputs
Hashes == {<<>>, <<"#", "about">>, <<"#", "bad">>, <<"#", "other">>}

Pages1 == (Slash :> "Home") @@ (<<"/", "about">> :> "About")
          @@ (<<"/", "bad">> :> NotAComponent)

GlobalAll == [headers |-> <<"Hdr">>, footers |-> <<"Ftr">>, pages |-> <<Star>>]
GlobalAbout == [headers |-> <<"Hdr", "Hdr">>, footers |-> <<>>,
                pages |-> <<<<"/", "about">>>>]
GlobalNav == [headers |-> <<"Nav">>, footers |-> <<>>, pages |-> <<Star>>]
GlobalPartial == [headers |-> <<"Hdr">>]

\* Overlays of the page map and the global section.
AppOverlays ==
    { [pages |-> Pages1],
      [global |-> GlobalAll],
      [global |-> GlobalAbout],
      [global |-> GlobalNav],
      [global |-> GlobalPartial],
      [title |-> "Docs", ui |-> [theme |-> "dark"]] }
\* Overlays of the style fields, the title and the theme.
StyleOverlays ==
    { [pages |-> Pages1],
      [style |-> "a.css", styles |-> <<"b.css", "a.css">>, inlineStyle |-> "body{}"],
      [styles |-> <<"b.css">>, inlineStyle |-> "p{}"] }

Ids == {"x", "constructor"}
RcmpIds == Ids \cup {AppId, "nope"}

\* The nodes the program built (all but the page's own mount container).
BuiltNodes ==
    {n \in 1..(next - 1) : ~(Has(heap[n].attrs, "id") /\ heap[n].attrs["id"] = AppId)}

\* The descriptors application code builds directly with j(tag, props, ...):
\*   j("span", {id: "x"}, "J{counter}"), j("span", {id: "constructor"}),
\*   j("b", null, "J{counter}"), and j("div", {id: "x"}, n) for a node n built
\*   before.
BuildDescs ==
    {Descriptor("span", [id |-> Str("x")], <<[str |-> <<Expr("counter")>>]>>),
     Descriptor("span", [id |-> Str("constructor")], <<>>),
     Descriptor("b", Empty, <<[str |-> <<Expr("counter")>>]>>)}
    \cup {Descriptor("div", [id |-> Str("x")], <<NodeKid(n)>>) : n \in BuiltNodes}

\* Calls of j(tag, props, ...children) that exercise the builder:
\*   j("p", null, "aJ{1+1}J{undefinedVar}J{counter}"), j("p", null, "J{Symbol()}"),
\*   j("i", {class: {a: true, b: false}, style: {color: "red"}, title: "t"}),
\*   j("i", {class: "k", style: "color:red", id: "y"}), j("i", {class: null}),
\*   j("i", {title: null, style: null}),
\*   j("ul", null, "s", [1, [null, n, true]], "J{counter}") for a node n built
\*   before, j(Home, {id: "cid"}, "child") and j(About, {id: "cid"}, "child").
CallDescs ==
    {Descriptor("p", Empty, <<[str |-> <<Lit("a"), Expr("1+1"), Expr("undefinedVar"),
                                         Expr("counter")>>]>>),
     Descriptor("p", Empty, <<[str |-> <<Expr("Symbol()")>>]>>),
     Descriptor("i", [class |-> [map |-> [a |-> TRUE, b |-> FALSE]],
                      style |-> [map |-> [color |-> "red"]],
                      title |-> Str("t")], <<>>),
     Descriptor("i", [class |-> Str("k"), style |-> Str("color:red"),
                      id |-> Str("y")], <<>>),
     Descriptor("i", [class |-> [nul |-> TRUE]], <<>>),
     Descriptor("i", [title |-> [nul |-> TRUE], style |-> [nul |-> TRUE]], <<>>),
     Descriptor("Home", [id |-> Str("cid")], <<[str |-> <<Lit("child")>>]>>),
     Descriptor("About", [id |-> Str("cid")], <<[str |-> <<Lit("child")>>]>>)}
    \cup {Descriptor("ul", Empty,
                     <<[str |-> <<Lit("s")>>],
                       [seq |-> <<[num |-> 1],
                                  [seq |-> <<[nul |-> TRUE], NodeKid(n),
                                             [other |-> "true"]>>]>>],
                       [str |-> <<Expr("counter")>>]>>) : n \in BuiltNodes}

\* ------------------------------------------------------------------ actions
\* j("cfg", overlay)
CfgAction(o) ==
    LET r == Cfg(M, config, o)
    IN /\ Install(r.m)
       /\ config' = r.config
       /\ last' = [Op("cfg", "done") EXCEPT !.ov = o]
       /\ UNCHANGED <<hash, counter, ready, events>>

RenderStep(op) ==
    LET r == RenderApp(M, config, hash, counter)
    IN /\ Install(r.m)
       /\ last' = Op(op, r.outcome)
       /\ UNCHANGED <<config, hash, counter>>

\* The DOMContentLoaded listener: renderApp(), then the hashchange listener is
\* registered.
DomContentLoaded ==
    /\ ~ready
    /\ RenderStep("render")
    /\ ready' = TRUE
    /\ UNCHANGED events

\* The user (or history.back / history.forward) changes the fragment; the host
\* queues a hashchange event when a listener is registered.
Navigate(h) ==
    /\ h # hash
    /\ hash' = h
    /\ events' = IF ready THEN events + 1 ELSE events
    /\ events' <= MaxEvents
    /\ last' = Op("navigate", "done")
    /\ UNCHANGED <<config, loaded, templates, heap, next, head, counter, ready, first>>

HashChange_Drop ==
    /\ events > 0
    /\ events' = events - 1
    /\ last' = Op("hashchange", "dropped")
    /\ UNCHANGED <<config, loaded, templates, heap, next, head, hash, counter, ready, first>>
\* The hashchange listener: renderApp().
HashChange ==
    /\ events > 0
    /\ RenderStep("render")
    /\ events' = events - 1
    /\ UNCHANGED ready

\* j("render")
JRender ==
    /\ RenderStep("render")
    /\ UNCHANGED <<ready, events>>

\* Application code assigns the ambient variable.
SetCounter(v) ==
    /\ v # counter
    /\ counter' = v
    /\ last' = Op("setCounter", "done")
    /\ UNCHANGED <<config, loaded, templates, heap, next, head, hash, ready, events, first>>

\* j(tag, props, ...children) called by application code; the node is not
\* attached.
Build(d) ==
    LET r == CreateElement(M, d, counter)
    IN /\ Install(r.m)
       /\ last' = [Op("build", IF r.out = Thrown THEN "threw" ELSE "done")
                      EXCEPT !.id = NodeIdOf(d.props), !.desc = d,
                             !.new = IF Has(r.out, "node") THEN r.out.node ELSE -1]
       /\ UNCHANGED <<config, hash, counter, ready, events>>

\* document.body.appendChild(n) by application code, for a node n it built.
Attach(n) ==
    /\ n \in BuiltNodes
    /\ ParentOf(heap, n) # Body
    /\ heap' = AppendNode(heap, Body, n)
    /\ last' = Op("attach", "done")
    /\ UNCHANGED <<config, loaded, templates, next, head, hash, counter, ready, events, first>>

\* Application code changes the live node that carries identifier "x":
\* document.getElementById("x").setAttribute("title", "mutated").
Mutate(n) ==
    /\ n = GetElementById(heap, "x")
    /\ n # -1
    /\ ~(Has(heap[n].attrs, "title") /\ heap[n].attrs["title"] = "mutated")
    /\ heap' = [heap EXCEPT ![n].attrs = Put(@, "title", "mutated")]
    /\ last' = Op("mutate", "done")
    /\ UNCHANGED <<config, loaded, templates, next, head, hash, counter, ready, events, first>>

\* j("rcmp", id)
RcmpAction(id) ==
    LET r == Rcmp(M, id, counter)
    IN /\ Install(r.m)
       /\ last' = [Op("rcmp", r.outcome) EXCEPT !.id = id, !.new = r.new]
       /\ UNCHANGED <<config, hash, counter, ready, events>>

\* instance.addStyle(url) / instance.addInlineStyle(css) called directly on the
\* singleton that j("cfg", ...) returns.
AddStyleAction(url) ==
    /\ Install(AddStyle(M, url))
    /\ last' = [Op("addStyle", "done") EXCEPT !.id = url]
    /\ UNCHANGED <<config, hash, counter, ready, events>>
AddInlineStyleAction(css) ==
    /\ Install(AddInlineStyle(M, css))
    /\ last' = [Op("addInlineStyle", "done") EXCEPT !.id = css]
    /\ UNCHANGED <<config, hash, counter, ready, events>>

\* The application: configuration of pages and global components, navigation
\* and full renders.
Next ==
    \/ \E o \in AppOverlays : CfgAction(o)
    \/ \E h \in Hashes : Navigate(h)
    \/ JRender

Spec == Init /\ [][Next]_vars

\* Style injection: configuration of the style fields, full renders and direct
\* calls of addStyle / addInlineStyle.
NextStyle ==
    \/ \E o \in StyleOverlays : CfgAction(o)
    \/ JRender
    \/ \E url \in {DefaultStyles, "a.css"} : AddStyleAction(url)
    \/ \E css \in {"body{}"} : AddInlineStyleAction(css)

SpecStyle == Init /\ [][NextStyle]_vars

\* Builds by application code, DOM changes, and partial re-renders.
NextRcmp ==
    \/ \E v \in 0..MaxCounter : SetCounter(v)
    \/ \E d \in BuildDescs : Build(d) /\ next' <= MaxBuilt + 1
    \/ \E n \in NodeIds : Attach(n)
    \/ \E n \in NodeIds : Mutate(n)
    \/ \E id \in RcmpIds : RcmpAction(id) /\ next' <= MaxBuilt + 1

InitRcmp == Init /\ heap = StaticDocument /\ hash = <<>>

SpecRcmp == InitRcmp /\ [][NextRcmp]_vars

\* The element builder on its own: calls of j(tag, props, ...children) with
\* every kind of property value and child, between changes of the ambient
\* variable.
NextBuild ==
    \/ \E v \in 0..MaxCounter : SetCounter(v)
    \/ \E d \in CallDescs : Build(d) /\ next' <= MaxBuilt + 1

SpecBuild == InitRcmp /\ [][NextBuild]_vars

\* The page's life: the application module configures the singleton while the
\* document loads, DOMContentLoaded renders and registers the hashchange
\* listener, and from then on every change of the fragment queues an event
\* that the listener handles in its turn.
EventOverlays == {[pages |-> Pages1], [global |-> GlobalAll]}
NextEvents ==
    \/ \E o \in EventOverlays : ~ready /\ CfgAction(o)
    \/ DomContentLoaded
    \/ \E h \in Hashes : Navigate(h)
    \/ HashChange

SpecEvents == Init /\ [][NextEvents]_vars

\* Pages and partial re-renders together: the page map is configured, the
\* application is rendered on one page and another, and rcmp is called for the
\* identifier the pages build under and for the mount container's.
RerenderOverlays == {[pages |-> Pages1], [global |-> GlobalAll]}
NextRerender ==
    \/ \E o \in RerenderOverlays : CfgAction(o)
    \/ \E h \in {<<>>, <<"#", "about">>} : Navigate(h)
    \/ JRender
    \/ \E id \in {"x", AppId} : RcmpAction(id)

SpecRerender == Init /\ [][NextRerender]_vars

\* =================================================================== claims
\* The mount container, and the parts of the document a pass builds.
RootNode == GetElementById(heap, AppId)
Route == GetCurrentRoute(hash)
Rendered == last.op = "render" /\ last.outcome = "done"
Replaced == last.op = "rcmp" /\ last.outcome = "replaced"

\* ----------------------------------------------------------------------- C1
\* C1: first write wins, for every identifier: once a descriptor D has been
\* built under identifier i, a lookup of i in the Template Registry returns D,
\* whatever is built under i afterwards.
C1_FirstWriteWins ==
    \A i \in DOMAIN first : Lookup(templates, i) = first[i]

\* ----------------------------------------------------------------------- C4
\* The cases in which rcmp(id) has nothing to re-render: no live node has the
\* identifier, the node has no parent, or the registry holds no entry for it.
NothingToRerender(id) ==
    \/ GetElementById(heap, id) = -1
    \/ ParentOf(heap, GetElementById(heap, id)) = -1
    \/ ~Has(templates, id)

\* C4: in each of those cases rcmp(id) raises no error and leaves the document
\* unchanged, for every identifier string.
C4_RerenderNoop ==
    [][(last'.op = "rcmp" /\ NothingToRerender(last'.id))
          => (last'.outcome # "threw" /\ UNCHANGED <<heap, head>>)]_vars

\* ----------------------------------------------------------------------- C5
\* Every text node under n shows its inline expressions at their current value.
TextIsCurrent(n) ==
    \A d \in Subtree(heap, n) : \A i \in 1..Len(heap[d].kids) :
        IsNodeKid(heap[d].kids[i])
        \/ heap[d].kids[i].text = EvalTemplate(heap[d].kids[i].src, counter)

\* C5: the node rcmp(id) puts in place carries the stored properties only (no
\* later mutation of the live node) and its text reflects the current value of
\* the ambient variables.
C5_RerenderIsFresh ==
    Replaced =>
        /\ heap[last.new].attrs = AttrsOf(templates[last.id].props)
        /\ TextIsCurrent(last.new)

\* ----------------------------------------------------------------------- C6
\* The nodes of the document, document.body included.
DocNodes(h) == Subtree(h, Body)

\* C6: a successful rcmp(id) puts the new node where the old one was, under the
\* same parent, and changes nothing else: the parent's other children and
\* every node outside the replaced subtree are as before.
C6_RerenderIsScoped ==
    [][(last'.op = "rcmp" /\ last'.outcome = "replaced") =>
          LET old == GetElementById(heap, last'.id)
              parent == ParentOf(heap, old)
          IN /\ heap'[parent].kids =
                    [i \in 1..Len(heap[parent].kids) |->
                        IF heap[parent].kids[i] = NodeKid(old)
                        THEN NodeKid(last'.new)
                        ELSE heap[parent].kids[i]]
             /\ \A n \in DocNodes(heap) \ (Subtree(heap, old) \cup {parent}) :
                    heap'[n] = heap[n]
             /\ head' = head]_vars

\* ----------------------------------------------------------------------- C2
Tags(ns) == [i \in 1..Len(ns) |-> heap[ns[i]].tag]
IsWrapper(n) == Has(heap[n].attrs, "class") /\ heap[n].attrs["class"] = MainClass
HasNoText(n) == \A i \in 1..Len(heap[n].kids) : IsNodeKid(heap[n].kids[i])

\* The children of the mount container are one node per component of hs, in
\* order, then one content wrapper, then one node per component of fs, in order.
Layout(hs, fs) ==
    LET kids == ElemKids(heap, RootNode)
    IN /\ HasNoText(RootNode)
       /\ Len(kids) = Len(hs) + 1 + Len(fs)
       /\ \A i \in 1..Len(hs) : heap[kids[i]].tag = RootTagOf(hs[i]) /\ ~IsWrapper(kids[i])
       /\ IsWrapper(kids[Len(hs) + 1])
       /\ \A i \in 1..Len(fs) :
             /\ heap[kids[Len(hs) + 1 + i]].tag = RootTagOf(fs[i])
             /\ ~IsWrapper(kids[Len(hs) + 1 + i])

\* C2 as stated: after every pass that renders, the container holds one node
\* per configured global header, the wrapper, one node per configured global
\* footer.
C2_ConfiguredLayout ==
    Rendered => Layout(config.global.headers, config.global.footers)

\* The page filter of the global section names the wildcard or the route.
FilterAdmits(route) ==
    \E i \in 1..Len(config.global.pages) : config.global.pages[i] \in {Star, route}
Applicable(list) == IF FilterAdmits(Route) THEN list ELSE <<>>

\* C2 as amended: the headers and footers are those that apply to the route,
\* globalHeaders(route) and globalFooters(route): the configured lists when the
\* page filter holds '*' or the route, none otherwise.
C2_ApplicableLayout ==
    Rendered => Layout(Applicable(config.global.headers),
                       Applicable(config.global.footers))

\* Two headers precede the wrapper.
C2_Witness ==
    /\ Rendered
    /\ Len(Applicable(config.global.headers)) = 2
    /\ Len(ElemKids(heap, RootNode)) = 3
    /\ IsWrapper(ElemKids(heap, RootNode)[3])

\* ----------------------------------------------------------------------- C3
\* C3: when the body component selected for the route is not a component
\* reference, renderApp aborts and the document, the Loaded-styles set and the
\* Template Registry are as they were.
C3_InvalidBodyAborts ==
    [][(last'.op = "render" /\ ~IsFunction(SelectBody(config.pages, Route)))
          => (last'.outcome = "aborted"
              /\ UNCHANGED <<heap, next, head, loaded, templates>>)]_vars

\* A pass aborted while a previous render is in the mount container.
C3_Witness ==
    /\ last.op = "render" /\ last.outcome = "aborted"
    /\ RootNode # -1
    /\ ElemKids(heap, RootNode) # <<>>

\* ----------------------------------------------------------------------- C7
Count(seq, e) == Cardinality({i \in 1..Len(seq) : seq[i] = e})
ConfiguredUrls ==
    (IF Truthy(config.style) THEN {config.style} ELSE {}) \cup Range(config.styles)

\* C7: no stylesheet URL is in two link elements and no text in two style
\* elements; after a pass that renders, the baseline stylesheet and every
\* configured URL are each present exactly once.
C7_StylesOnce ==
    /\ \A i, j \in 1..Len(head) : i # j => head[i] # head[j]
    /\ Rendered =>
          \A url \in {DefaultStyles} \cup ConfiguredUrls : Count(head, Link(url)) = 1

\* A pass rendered with a.css configured both as style and in styles.
C7_Witness ==
    /\ Rendered
    /\ config.style = "a.css"
    /\ Len(head) >= 4

\* ----------------------------------------------------------------------- C8
\* C8 as stated: a field no overlay mentions keeps its value, the fields of
\* the global section included.
C8_DeepMerge ==
    [][last'.op = "cfg" =>
          /\ \A k \in DOMAIN config : ~Has(last'.ov, k) => config'[k] = config[k]
          /\ Has(last'.ov, "global") =>
                \A f \in DOMAIN config.global :
                    ~Has(last'.ov.global, f) =>
                        Has(config'.global, f) /\ config'.global[f] = config.global[f]]_vars

\* C8 as amended: the merge is shallow.  A top-level field the overlay does
\* not mention keeps its value; a top-level field it mentions, the global
\* section included, takes the overlay's value whole.
C8_ShallowMerge ==
    [][last'.op = "cfg" =>
          /\ DOMAIN config' = DOMAIN config \cup DOMAIN last'.ov
          /\ \A k \in DOMAIN config' :
                config'[k] = IF Has(last'.ov, k) THEN last'.ov[k] ELSE config[k]]_vars

\* An overlay of headers alone was applied after the page map had been set:
\* the page map is kept, the page filter of the global section is gone.
C8_Witness ==
    /\ last.op = "cfg"
    /\ last.ov = [global |-> GlobalPartial]
    /\ Has(config.pages, Slash)
    /\ ~Has(config.global, "pages")

\* ----------------------------------------------------------------------- C9
\* C9: with components whose render() returns a node or an array of nodes, a
\* pass runs to completion or aborts before any mutation.
C9_PassCompletes ==
    (/\ last.op = "render"
     /\ {"headers", "footers", "pages"} \subseteq DOMAIN config.global)
        => last.outcome \in {"done", "aborted"}

\* ---------------------------------------------------------------------- C10
\* The page-map entry of the route, or the entry of '/' when it has none.
ExpectedBody ==
    IF Has(config.pages, Route) THEN config.pages[Route]
    ELSE IF Has(config.pages, Slash) THEN config.pages[Slash]
    ELSE Undefined

\* C10: a pass aborts exactly when that entry is not a component, and a pass
\* that renders puts that component's output in the content wrapper.
C10_BodySelection ==
    /\ last.op = "render" => (last.outcome = "aborted" <=> ~IsFunction(ExpectedBody))
    /\ Rendered =>
          \E w \in Range(ElemKids(heap, RootNode)) :
              /\ IsWrapper(w)
              /\ Tags(ElemKids(heap, w)) =
                    [i \in 1..Len(RenderPlan(ExpectedBody).descs) |->
                        RenderPlan(ExpectedBody).descs[i].tag]

\* A route without a page-map entry rendered the component of '/'.
C10_Witness ==
    /\ Rendered
    /\ ~Has(config.pages, Route)
    /\ config.pages[Slash] = "Home"

\* ---------------------------------------------------------------------- C11
\* C11: currentRoute() is '/' when the fragment is absent or empty and '/'
\* followed by the fragment otherwise; it is never the empty string.
C11_CurrentRoute ==
    /\ hash = <<>> => Route = <<"/">>
    /\ hash # <<>> => Route = <<"/">> \o Tail(hash)
    /\ Route # <<>>

\* A pass rendered the page of the fragment 'about' under the route '/about'.
C11_Witness ==
    /\ Rendered
    /\ hash = <<"#", "about">>
    /\ Route = <<"/", "about">>
    /\ Has(config.pages, Route)

\* ---------------------------------------------------------------------- C12
\* Every route the application can be on.
Routes == {GetCurrentRoute(h) : h \in Hashes}
Contains(list, e) == \E i \in 1..Len(list) : list[i] = e

\* C12: for a global section that carries its page-filter list and its header
\* and footer lists, shouldApplyGlobal(page) is true iff the filter holds '*'
\* or page; globalHeaders(page) / globalFooters(page) are the configured lists
\* when it is true and empty otherwise; a render of a page outside the filter
\* leaves the mount container with the content wrapper alone.
C12_GlobalFilter ==
    /\ {"pages", "headers", "footers"} \subseteq DOMAIN config.global =>
          \A p \in Routes :
              LET applies == Contains(config.global.pages, Star)
                             \/ Contains(config.global.pages, p)
              IN /\ ShouldHaveGlobal(config, p) = [ok |-> TRUE, val |-> applies]
                 /\ GetGlobalHeaders(config, p) =
                       [ok |-> TRUE,
                        list |-> IF applies THEN config.global.headers ELSE <<>>]
                 /\ GetGlobalFooters(config, p) =
                       [ok |-> TRUE,
                        list |-> IF applies THEN config.global.footers ELSE <<>>]
    /\ (Rendered /\ ~Contains(config.global.pages, Star)
                 /\ ~Contains(config.global.pages, Route)) =>
          /\ Len(heap[RootNode].kids) = 1
          /\ IsWrapper(ElemKids(heap, RootNode)[1])
    /\ (Rendered /\ (Contains(config.global.pages, Star)
                     \/ Contains(config.global.pages, Route))) =>
          Len(heap[RootNode].kids) =
              Len(config.global.headers) + 1 + Len(config.global.footers)

\* Headers are configured for '/about' alone and a pass rendered '/'.
C12_Witness ==
    /\ Rendered
    /\ config.global.headers # <<>>
    /\ ~Contains(config.global.pages, Route)
    /\ Len(heap[RootNode].kids) = 1

\* ---------------------------------------------------------------------- C15
\* The nodes of the document that carry the mount container's identifier.
AppNodes(h) ==
    {n \in InDocument(h) : Has(h[n].attrs, "id") /\ h[n].attrs["id"] = AppId}

\* C15 as stated: after every renderApp pass the document holds exactly one
\* node with the mount container's identifier.
C15_OneContainerAfterPass ==
    last.op = "render" => Cardinality(AppNodes(heap)) = 1

\* C15 as amended: the document never holds two such nodes; it holds exactly
\* one after every pass that went past the body-component validity check; and
\* a container that exists is the container after the step (none is created).
C15_ContainerEnsured ==
    [][/\ Cardinality(AppNodes(heap')) <= 1
       /\ (last'.op = "render" /\ last'.outcome # "aborted")
             => Cardinality(AppNodes(heap')) = 1
       /\ AppNodes(heap) # {} => AppNodes(heap') = AppNodes(heap)]_vars

\* Two passes completed on a document that started without a container: the
\* registry entry of the container shows that the first pass created it.
C15_Witness ==
    /\ Rendered
    /\ Has(templates, AppId)
    /\ Cardinality(AppNodes(heap)) = 1
    /\ next > 6

\* ---------------------------------------------------------------------- C13
\* The last operation was a call j(tag, ...) with a concrete tag name.
BuiltTag == last.op = "build" /\ ~IsFunction(last.desc.tag)

\* The text a string child is to show: literal text as it is, J{1+1} as "2",
\* J{counter} as the current value, and 'undefined' for an expression whose
\* evaluation fails or yields nothing printable.
ExpectedText(segs) ==
    [i \in 1..Len(segs) |->
        IF Has(segs[i], "lit") THEN segs[i].lit
        ELSE CASE segs[i].expr = "1+1" -> "2"
               [] segs[i].expr = "counter" -> NumStr(counter)
               [] OTHER -> "undefined"]

\* C13: no error of an inline expression leaves the builder: a call with
\* string children returns an element, and each of its text nodes shows the
\* expected text.
C13_ExpressionErrorsContained ==
    (BuiltTag /\ ~PropsThrow(last.desc.props)) =>
        /\ last.outcome = "done"
        /\ \A i \in 1..Len(heap[last.new].kids) :
              Has(heap[last.new].kids[i], "text") =>
                  heap[last.new].kids[i].text = ExpectedText(heap[last.new].kids[i].src)

\* ---------------------------------------------------------------------- C14
StringForm(v) == IF IsStr(v) THEN v.str ELSE IF IsNull(v) THEN "null" ELSE "[object Object]"
IsMapped(props, k) == (k = "class" \/ k = "style") /\ IsMap(props[k])

\* C14: a class mapping gives exactly the class names with a truthy value, a
\* style mapping sets each style property, and every other property, whatever
\* its value, becomes a plain attribute; the call returns the element.
C14_PropertiesApplied ==
    (BuiltTag /\ last.desc.children = <<>>) =>
        /\ last.outcome = "done"
        /\ heap[last.new].classes =
              IF Has(last.desc.props, "class") /\ IsMap(last.desc.props["class"])
              THEN {c \in DOMAIN last.desc.props["class"].map :
                       last.desc.props["class"].map[c]}
              ELSE {}
        /\ heap[last.new].style =
              IF Has(last.desc.props, "style") /\ IsMap(last.desc.props["style"])
              THEN last.desc.props["style"].map
              ELSE Empty
        /\ \A k \in DOMAIN last.desc.props :
              ~IsMapped(last.desc.props, k) =>
                  /\ Has(heap[last.new].attrs, k)
                  /\ heap[last.new].attrs[k] = StringForm(last.desc.props[k])

\* ---------------------------------------------------------------------- C17
RECURSIVE Leaves(_)
\* The depth-first left-to-right flattening of a children argument, without
\* null and undefined.
Leaves(children) ==
    IF children = <<>> THEN <<>>
    ELSE (IF Has(Head(children), "seq") THEN Leaves(Head(children).seq)
          ELSE IF Has(Head(children), "nul") THEN <<>>
          ELSE <<Head(children)>>) \o Leaves(Tail(children))

\* The child node a leaf becomes.
KidOf(leaf) ==
    CASE Has(leaf, "str") -> TextKid(ExpectedText(leaf.str), leaf.str)
      [] Has(leaf, "num") -> TextKid(<<NumStr(leaf.num)>>, <<Lit(NumStr(leaf.num))>>)
      [] Has(leaf, "node") -> NodeKid(leaf.node)
      [] OTHER -> TextKid(<<leaf.other>>, <<Lit(leaf.other)>>)

\* C17: the children of a built element are, in order, the child nodes of the
\* leaves of the children argument.
C17_ChildrenFlattened ==
    (BuiltTag /\ last.outcome = "done") =>
        heap[last.new].kids =
            [i \in 1..Len(Leaves(last.desc.children)) |->
                KidOf(Leaves(last.desc.children)[i])]

\* j("ul", null, "s", [1, [null, n, true]], "J{counter}") returned an element
\* with five children, the third of them the node n.
C17_Witness ==
    /\ BuiltTag /\ last.outcome = "done"
    /\ last.desc.tag = "ul"
    /\ Len(heap[last.new].kids) = 5
    /\ IsNodeKid(heap[last.new].kids[3])
    /\ counter = 1

\* ---------------------------------------------------------------------- C18
\* The identifiers the render() body of component c builds elements under.
PlanIds(c) ==
    {NodeIdOf(RenderPlan(c).descs[i].props) : i \in 1..Len(RenderPlan(c).descs)} \ {""}

\* C18: a call with a component as tag builds what render() builds and nothing
\* more: the registry gains no entry for the call's own id and changes no
\* entry, and no node carries a property or a child of the call.
C18_ComponentBranch ==
    [][(last'.op = "build" /\ IsFunction(last'.desc.tag)) =>
          /\ DOMAIN templates' \subseteq DOMAIN templates \cup PlanIds(last'.desc.tag)
          /\ \A i \in DOMAIN templates : templates'[i] = templates[i]
          /\ next' - next = Len(RenderPlan(last'.desc.tag).descs)
          /\ \A n \in next..(next' - 1) :
                /\ heap'[n] = [ElemOf(RenderPlan(last'.desc.tag).descs[n - next + 1])
                                 EXCEPT !.kids = heap'[n].kids]
                /\ \A i \in 1..Len(heap'[n].kids) :
                      heap'[n].kids[i].text # <<"child">>
          /\ \A n \in 0..(next - 1) : heap'[n] = heap[n]]_vars

\* j(About, {id: "cid"}, "child") returned About's two nodes; the registry
\* holds About's own identifier and not the call's.
C18_Witness ==
    /\ last.op = "build" /\ last.desc.tag = "About"
    /\ last.id = "cid"
    /\ Has(templates, "x")
    /\ ~Has(templates, "cid")

\* ---------------------------------------------------------------------- C16
\* The page-map entry of the current route, '/' standing in for a missing one.
RouteBody ==
    IF Has(config.pages, Route) THEN config.pages[Route]
    ELSE IF Has(config.pages, <<"/">>) THEN config.pages[<<"/">>]
    ELSE "none"

\* The mount container shows the body of the current route: its content
\* wrapper holds the nodes that component renders.
ShowsRouteBody ==
    /\ RootNode # -1
    /\ \E w \in Range(ElemKids(heap, RootNode)) :
          /\ IsWrapper(w)
          /\ Len(ElemKids(heap, w)) = Len(RenderPlan(RouteBody).descs)
          /\ \A i \in 1..Len(ElemKids(heap, w)) :
                heap[ElemKids(heap, w)[i]].tag = RenderPlan(RouteBody).descs[i].tag

\* No hashchange event is pending after the initial load.
Settled == ready /\ events = 0

C19_EntriesPermanent ==
    [][/\ \A i \in DOMAIN templates : Has(templates', i) /\ templates'[i] = templates[i]
       /\ (last'.op = "rcmp" /\ last'.outcome = "replaced") =>
             /\ templates[last'.id] = first[last'.id]
             /\ heap'[last'.new].tag = first[last'.id].tag
             /\ heap'[last'.new].attrs = AttrsOf(first[last'.id].props)]_vars

\* On the page '/about', whose component builds <p id="x">, rcmp("x") put in
\* place the <div id="x"> of the page rendered first.
C19_Witness ==
    /\ Replaced
    /\ last.id = "x"
    /\ Route = <<"/", "about">>
    /\ heap[last.new].tag = "div"
    /\ \E n \in 1..(next - 1) : heap[n].tag = "p"

\* ---------------------------------------------------------------------- C20
\* The descriptor renderApp builds the mount container from.
ContainerDesc ==
    [tag |-> "div", props |-> [id |-> [str |-> AppId]], children |-> <<>>]

\* C20: a pass that creates the mount container registers its identifier with
\* an empty children list, and a container the page declared is never
\* registered; when the identifier is registered, rcmp of it replaces the
\* container with an empty one and the document holds no header, wrapper or
\* footer; when it is not, rcmp of it changes nothing.
C20_ContainerRerender ==
    /\ [][(last'.op = "render" /\ last'.outcome # "aborted" /\ RootNode = -1)
             => (Has(templates', AppId) /\ templates'[AppId] = ContainerDesc)]_vars
    /\ [][(RootNode # -1 /\ ~Has(templates, AppId)) => ~Has(templates', AppId)]_vars
    /\ []((last.op = "rcmp" /\ last.id = AppId /\ Has(templates, AppId)) =>
             /\ last.outcome = "replaced"
             /\ RootNode = last.new
             /\ heap[RootNode].kids = <<>>
             /\ heap[Body].kids = <<NodeKid(RootNode)>>)
    /\ [][(last'.op = "rcmp" /\ last'.id = AppId /\ ~Has(templates, AppId))
             => (last'.outcome \in {"noNode", "noTemplate"} /\ heap' = heap)]_vars

\* rcmp("app") emptied a container that a completed pass had filled.
C20_Witness ==
    /\ Replaced
    /\ last.id = AppId
    /\ heap[RootNode].kids = <<>>
    /\ \E n \in 1..(next - 1) : IsWrapper(n) /\ heap[n].kids # <<>>
=============================================================================
